---- MODULE Spec2Model ----
(***************************************************************************)
(* drag-parser: price-list extraction from three hosts.                    *)
(*                                                                         *)
(* Python str values are modelled as sequences of one-character strings,   *)
(* so that regular-expression search, URL parsing and string formatting    *)
(* are computed character by character.  Cyrillic letters are written      *)
(* "CYR_x" (one element stands for one character).                         *)
(* A find()/get() result that may be None is a sequence of length 0 or 1.  *)
(***************************************************************************)
EXTENDS Integers, Sequences, FiniteSets, TLC

VARIABLES
    pc,          \* position of the request being served by read_prices_by_host
    host,        \* the host query parameter of the request
    parser,      \* the extractor get_parser_for_host returned
    categories,  \* parse_prices_from_categories_by_host: categories
    idx,         \* index of the next category the for loop visits
    prices,      \* the list of Price dicts collected so far
    fetched,     \* the URLs requests.get was called with, in call order
    soups,       \* the documents the fetches of this request returned, in order
    met,         \* the conditions the fetches of this request met
    catsCalls,   \* number of calls of get_categories_urls in this request
    exc,         \* the exception in flight (type "none" when there is none)
    response,    \* what the endpoint answered
    emitted,     \* <<host, title, id, request number>> of every record answered
    reqs,        \* number of requests answered
    op,          \* unit level: the function applied to arg
    arg,         \* unit level: the input
    ret          \* unit level: the value returned

vars == <<pc, host, parser, categories, idx, prices, fetched, soups, met,
          catsCalls, exc, response, emitted, reqs, op, arg, ret>>

reqVars == <<pc, host, parser, categories, idx, prices, fetched, soups, met,
             catsCalls, exc, response, emitted, reqs>>

unitVars == <<op, arg, ret>>

----------------------------------------------------------------------------
(* Bounds of the model *)

MaxTokens == 5

MaxRows == 2

MaxFlex == 2

MaxRequests == 2

MaxCats == 2

----------------------------------------------------------------------------
(* Strings *)

Digits == {"0", "1", "2", "3", "4", "5", "6", "7", "8", "9"}

\* what \s matches among the characters of the model
Whitespace == {" ", "\n"}

DigitValue(c) ==
    CASE c = "0" -> 0 [] c = "1" -> 1 [] c = "2" -> 2 [] c = "3" -> 3
      [] c = "4" -> 4 [] c = "5" -> 5 [] c = "6" -> 6 [] c = "7" -> 7
      [] c = "8" -> 8 [] c = "9" -> 9

RECURSIVE Float(_)
\* float(s) for a non-empty string of decimal digits
Float(s) ==
    IF s = <<>> THEN 0
    ELSE 10 * Float(SubSeq(s, 1, Len(s) - 1)) + DigitValue(s[Len(s)])

RECURSIVE RunEnd(_, _)
\* \d+ is greedy: the last index of the run of digits that starts at i
RunEnd(s, i) ==
    IF i < Len(s) /\ s[i + 1] \in Digits THEN RunEnd(s, i + 1) ELSE i

RECURSIVE FirstDigitFrom(_, _)
\* the leftmost index >= i that holds a digit, 0 when there is none
FirstDigitFrom(s, i) ==
    IF i > Len(s) THEN 0
    ELSE IF s[i] \in Digits THEN i
    ELSE FirstDigitFrom(s, i + 1)

RECURSIVE Find(_, _, _)
\* str.find: the least index >= i where sub occurs in s, 0 when it does not
Find(s, sub, i) ==
    IF i + Len(sub) - 1 > Len(s) THEN 0
    ELSE IF SubSeq(s, i, i + Len(sub) - 1) = sub THEN i
    ELSE Find(s, sub, i + 1)

Contains(s, sub) == Find(s, sub, 1) # 0

RECURSIVE Flatten(_)
Flatten(ss) ==
    IF ss = <<>> THEN <<>> ELSE Head(ss) \o Flatten(Tail(ss))

SeqsUpTo(S, n) == UNION {[1..k -> S] : k \in 0..n}

----------------------------------------------------------------------------
(* Price-string normalizers.  A search result is <<>> (no match, None) or   *)
(* <<capture>> (the text of the group named price).                         *)

\* ParserVekolom._match_price: re.search(r'(?P<price>\d+)', price_string)
VekolomMatchPrice(price_string) ==
    LET i == FirstDigitFrom(price_string, 1)
    IN  IF i = 0 THEN 0
        ELSE Float(SubSeq(price_string, i, RunEnd(price_string, i)))

\* ParserUralvtordrag._match_price: re.search(r"^(?P<price>\d+)", price_string)
UralvtordragMatchPrice(price_string) ==
    IF price_string # <<>> /\ price_string[1] \in Digits
    THEN Float(SubSeq(price_string, 1, RunEnd(price_string, 1)))
    ELSE 0

\* r'^(?P<price>\d+)$': $ matches at the end of the string and also just
\* before a newline that ends the string
SearchWhole(s) ==
    IF s = <<>> \/ s[1] \notin Digits THEN <<>>
    ELSE LET j == RunEnd(s, 1)
         IN  IF j = Len(s) \/ (j = Len(s) - 1 /\ s[Len(s)] = "\n")
             THEN <<SubSeq(s, 1, j)>>
             ELSE <<>>

\* r'^от\s(?P<price>\d+)'
SearchFrom(s) ==
    IF /\ Len(s) >= 4
       /\ s[1] = "CYR_o"
       /\ s[2] = "CYR_t"
       /\ s[3] \in Whitespace
       /\ s[4] \in Digits
    THEN <<SubSeq(s, 4, RunEnd(s, 4))>>
    ELSE <<>>

RECURSIVE SearchPair(_, _, _)
\* r'\d+<sep>(?P<price>\d+)' searched from index i on: the leftmost start
\* of a digit run that is followed by sep and a digit
SearchPair(s, sep, i) ==
    IF i > Len(s) THEN <<>>
    ELSE IF s[i] \in Digits
    THEN LET j == RunEnd(s, i)
         IN  IF j + 2 <= Len(s) /\ s[j + 1] = sep /\ s[j + 2] \in Digits
             THEN <<SubSeq(s, j + 2, RunEnd(s, j + 2))>>
             ELSE SearchPair(s, sep, i + 1)
    ELSE SearchPair(s, sep, i + 1)

\* re.search(regexp, price_string) for the patterns of ParserPlata57
ReSearch(regexp, s) ==
    CASE regexp = "whole" -> SearchWhole(s)
      [] regexp = "from"  -> SearchFrom(s)
      [] regexp = "range" -> SearchPair(s, "-", 1)
      [] regexp = "pair"  -> SearchPair(s, "/", 1)

PriceRegexpsSwapped == <<"pair", "range", "from", "whole">>

\* ParserPlata57._match_price: price_regexps
PriceRegexps == <<"whole", "from", "range", "pair">>

RECURSIVE MatchLoop(_, _, _)
\* the for loop of ParserPlata57._match_price: matched_price starts as 0.0,
\* the first regexp that matches sets it and breaks
MatchLoop(regexps, k, price_string) ==
    IF k > Len(regexps) THEN 0
    ELSE LET matched_price == ReSearch(regexps[k], price_string)
         IN  IF matched_price # <<>> THEN Float(matched_price[1])
             ELSE MatchLoop(regexps, k + 1, price_string)

Plata57MatchPrice(price_string) == MatchLoop(PriceRegexps, 1, price_string)

----------------------------------------------------------------------------
(* Hosts and extractors *)

\* AvailableHosts
VEKOLOM == <<"v", "e", "k", "o", "l", "o", "m", ".", "r", "u">>

PLATA57 == <<"p", "l", "a", "t", "a", "5", "7", ".", "r", "u">>

URALVTORDRAG ==
    <<"u", "r", "a", "l", "v", "t", "o", "r", "d", "r", "a", "g", ".", "r", "u">>

HOSTS_WITH_CATEGORIES == {URALVTORDRAG}

VekolomUrl ==
    <<"h", "t", "t", "p", "s", ":", "/", "/", "v", "e", "k", "o", "l", "o",
      "m", ".", "r", "u", "/", "p", "r", "i", "c", "e", "l", "i", "s", "t">>

Plata57UrlWww ==
    <<"h", "t", "t", "p", ":", "/", "/", "w", "w", "w", ".", "p", "l", "a",
      "t", "a", "5", "7", ".", "r", "u">>

Plata57Url ==
    <<"h", "t", "t", "p", ":", "/", "/", "p", "l", "a", "t", "a", "5", "7",
      ".", "r", "u">>

UralvtordragUrl ==
    <<"h", "t", "t", "p", "s", ":", "/", "/", "u", "r", "a", "l", "v", "t",
      "o", "r", "d", "r", "a", "g", ".", "r", "u">>

\* Parser.__init__: url is "" until a subclass sets it
NoParser == [kind |-> "Parser", url |-> <<>>]

ParserVekolom == [kind |-> "ParserVekolom", url |-> VekolomUrl]

ParserPlata57 == [kind |-> "ParserPlata57", url |-> Plata57Url]

ParserUralvtordrag == [kind |-> "ParserUralvtordrag", url |-> UralvtordragUrl]

Parsers == {ParserVekolom, ParserPlata57, ParserUralvtordrag}

UnsupportedMessage ==
    <<"T", "h", "e", " ", "s", "p", "e", "c", "i", "f", "i", "e", "d", " ",
      "h", "o", "s", "t", " ", "i", "s", " ", "n", "o", "t", " ", "s", "u",
      "p", "p", "o", "r", "t", "e", "d", " ", "b", "y", " ", "t", "h", "e",
      " ", "p", "a", "r", "s", "e", "r">>

NoExc == [type |-> "none", msg |-> <<>>]

\* get_parser_for_host: match host; the result is [exc, value]
GetParserForHost(h) ==
    CASE h = VEKOLOM      -> [exc |-> NoExc, value |-> ParserVekolom]
      [] h = PLATA57      -> [exc |-> NoExc, value |-> ParserPlata57]
      [] h = URALVTORDRAG -> [exc |-> NoExc, value |-> ParserUralvtordrag]
      [] OTHER -> [exc |-> [type |-> "ValueError", msg |-> UnsupportedMessage],
                   value |-> NoParser]

RECURSIVE FirstOf(_, _, _)
\* the least index >= i of s that holds a character of set, Len(s) + 1 if none
FirstOf(s, set, i) ==
    IF i > Len(s) THEN Len(s) + 1
    ELSE IF s[i] \in set THEN i
    ELSE FirstOf(s, set, i + 1)

\* urllib.parse.urlparse(url).netloc: after "<scheme>:", when the rest
\* starts with "//", the text up to the first of "/", "?", "#"
Netloc(url) ==
    LET colon == FirstOf(url, {":"}, 1)
        rest  == SubSeq(url, colon + 1, Len(url))
    IN  IF colon <= Len(url) /\ Len(rest) >= 2 /\ SubSeq(rest, 1, 2) = <<"/", "/">>
        THEN SubSeq(rest, 3, FirstOf(rest, {"/", "?", "#"}, 3) - 1)
        ELSE <<>>

\* Parser._host
Host(p) == Netloc(p.url)

----------------------------------------------------------------------------
(* Documents.  A row holds, per selector of its site, the texts of the     *)
(* elements the selector matches, in document order:                       *)
(*   titles  positionname | style "color: #000000;" | item_caption         *)
(*   price   positionprice | span "row5 td item_prise"                     *)
(*   flex    price_flex_value                                              *)
(*   cols    the centred cells of plata57.ru, with whether each holds a    *)
(*           b or strong element                                           *)
(* A document holds the item rows, the href attributes of its              *)
(* a.catalog_part links (<<>> for a link without href) and whether the     *)
(* price table with its tbody is there.                                    *)

Row(titles, price, flex, cols) ==
    [titles |-> titles, price |-> price, flex |-> flex, cols |-> cols]

Doc(links, table, rows) == [links |-> links, table |-> table, rows |-> rows]

EmptyDoc == Doc(<<>>, FALSE, <<>>)

\* dict Price
Price(title, price, h) == [title |-> title, price |-> price, host |-> h]

\* _parse_title of the three extractors: row.find(...), "" when not found
ParseTitle(row) == IF row.titles = <<>> THEN <<>> ELSE row.titles[1]

\* ParserVekolom._parse_price_at_flexbox
ParsePriceAtFlexbox(row) ==
    [i \in 1..Len(row.flex) |-> VekolomMatchPrice(row.flex[i])]

VekolomParsePriceFirstFlex(row) ==
    IF row.price = <<>>
    THEN LET flexPrices == ParsePriceAtFlexbox(row)
         IN  IF flexPrices # <<>> THEN flexPrices[1] ELSE 0
    ELSE VekolomMatchPrice(row.price[1])

\* ParserVekolom._parse_price
VekolomParsePrice(row) ==
    IF row.price = <<>>
    THEN LET flexPrices == ParsePriceAtFlexbox(row)
         IN  IF flexPrices # <<>> THEN flexPrices[Len(flexPrices)] ELSE 0
    ELSE VekolomMatchPrice(row.price[1])

RECURSIVE VekolomLoopBreak(_, _)
VekolomLoopBreak(rows, h) ==
    IF rows = <<>> THEN <<>>
    ELSE LET row   == Head(rows)
             title == ParseTitle(row)
         IN  IF title = <<>> THEN <<>>
             ELSE <<Price(title, VekolomParsePrice(row), h)>>
                  \o VekolomLoopBreak(Tail(rows), h)

RECURSIVE VekolomLoop(_, _)
\* ParserVekolom.parse_prices: the for loop, which skips a row whose title is ""
VekolomLoop(rows, h) ==
    IF rows = <<>> THEN <<>>
    ELSE LET row   == Head(rows)
             title == ParseTitle(row)
         IN  IF title = <<>> THEN VekolomLoop(Tail(rows), h)
             ELSE <<Price(title, VekolomParsePrice(row), h)>>
                  \o VekolomLoop(Tail(rows), h)

\* ParserPlata57._parse_price: the first centred cell holding b or strong
Plata57ParsePrice(row) ==
    LET price == SelectSeq(row.cols, LAMBDA column : column.bold)
    IN  IF price = <<>> THEN 0 ELSE Plata57MatchPrice(price[1].text)

\* ParserUralvtordrag._parse_price
UralvtordragParsePrice(row) ==
    IF row.price = <<>> THEN 0 ELSE UralvtordragMatchPrice(row.price[1])

\* parse_prices of the extractor p on soup; the result is [exc, value]
ParsePrices(p, soup) ==
    CASE p.kind = "ParserVekolom" ->
            [exc |-> NoExc, value |-> VekolomLoop(soup.rows, Host(p))]
      [] p.kind = "ParserPlata57" ->
            IF ~soup.table
            THEN [exc |-> [type |-> "AttributeError", msg |-> <<>>], value |-> <<>>]
            ELSE [exc |-> NoExc,
                  value |-> [i \in 1..Len(soup.rows) |->
                               Price(ParseTitle(soup.rows[i]),
                                     Plata57ParsePrice(soup.rows[i]), Host(p))]]
      [] p.kind = "ParserUralvtordrag" ->
            [exc |-> NoExc,
             value |-> [i \in 1..Len(soup.rows) |->
                          Price(ParseTitle(soup.rows[i]),
                                UralvtordragParsePrice(soup.rows[i]), Host(p))]]

NoneText == <<"N", "o", "n", "e">>

\* ParserUralvtordrag.get_categories_urls: f"{self.url}{href}" per link
GetCategoriesUrls(p, soup) ==
    [i \in 1..Len(soup.links) |->
        p.url \o (IF soup.links[i] = <<>> THEN NoneText ELSE soup.links[i][1])]

----------------------------------------------------------------------------
(* The pages the three sites may serve *)

TitleA == <<"a">>

TitleB == <<"b">>

V1 == Row(<<TitleA>>, <<<<"1", "2", " ", "x">>>>, <<>>, <<>>)

V2 == Row(<<>>, <<<<"7">>>>, <<>>, <<>>)

V3 == Row(<<TitleB>>, <<>>, <<<<"3">>, <<"7">>>>, <<>>)

P1 == Row(<<TitleA>>, <<>>, <<>>,
          <<[text |-> <<"CYR_o", "CYR_t", " ", "2", "0">>, bold |-> TRUE]>>)

P2 == Row(<<>>, <<>>, <<>>, <<[text |-> <<"1", "5">>, bold |-> TRUE]>>)

P3 == Row(<<TitleA>>, <<>>, <<>>, <<[text |-> <<"1", "5">>, bold |-> FALSE]>>)

U1 == Row(<<TitleA>>, <<<<"1", "5">>>>, <<>>, <<>>)

U2 == Row(<<>>, <<<<"2", "0">>>>, <<>>, <<>>)

U3 == Row(<<TitleA>>, <<>>, <<>>, <<>>)

\* the item rows a listing page of the site may hold
Listings(p) ==
    CASE p.kind = "ParserVekolom" ->
            {<<>>, <<V2>>, <<V3, V1>>, <<V1, V2, V3>>}
      [] p.kind = "ParserPlata57" ->
            {<<>>, <<P2>>, <<P3, P1>>, <<P1, P2, P3>>}
      [] p.kind = "ParserUralvtordrag" ->
            {<<>>, <<U3, U1>>, <<U1, U2, U3>>}

\* href attributes of a.catalog_part links: a path, a telephone link, and
\* <<>> for a link that has no href attribute
Hrefs == {<<<<"/", "c">>>>, <<<<"t", "e", "l", ":", "+", "7">>>>, <<>>}

\* the documents a successful fetch of url may return: the base URL of
\* uralvtordrag.ru serves an index of category links or a listing, every
\* other URL a listing (plata57.ru: with or without the price table)
WebDocs(p, url) ==
    {Doc(<<>>, p.kind = "ParserPlata57", rows) : rows \in Listings(p)}
    \cup (IF p.kind = "ParserPlata57" THEN {EmptyDoc} ELSE {})
    \cup (IF p.kind = "ParserUralvtordrag" /\ url = p.url
          THEN {Doc(links, FALSE, <<>>) : links \in SeqsUpTo(Hrefs, MaxCats)}
          ELSE {})

\* requests refuses a URL whose authority has a port that is not a number
\* of at most five digits: requests.exceptions.InvalidURL, a ValueError
InvalidUrl(url) ==
    LET n     == Netloc(url)
        colon == FirstOf(n, {":"}, 1)
    IN  /\ colon <= Len(n)
        /\ \/ Len(n) - colon > 5
           \/ \E k \in (colon + 1)..Len(n) : n[k] \notin Digits

Outcome(cond, type, soup) ==
    [cond |-> cond, exc |-> [type |-> type, msg |-> <<>>], soup |-> soup]

\* Parser.get_soup_for_url: requests.get(url, timeout=5.0) followed by
\* BeautifulSoup(response.text, 'lxml').  The status code is not looked at
\* and lxml accepts any body, so an error page and an unparsable body both
\* come back as a document (without the markup of the site).
GetSoupForUrl(p, url) ==
    IF InvalidUrl(url) THEN {Outcome("invalid_url", "InvalidURL", EmptyDoc)}
    ELSE {Outcome("ok", "none", d) : d \in WebDocs(p, url)}
         \cup {Outcome("http_error", "none", EmptyDoc),
               Outcome("unparsable_body", "none", EmptyDoc),
               Outcome("network_error", "ConnectionError", EmptyDoc),
               Outcome("timeout", "Timeout", EmptyDoc)}

FailureConds == {"http_error", "unparsable_body", "network_error", "timeout"}

----------------------------------------------------------------------------
(* The boundary: controllers.py and endpoints.py *)

Charset ==
    <<"a", "b", "c", "d", "e", "g", "k", "l", "m", "o", "p", "r", "t", "u",
      "v", "x", ".", "5", "7">>

Ord(c) == IF \E i \in 1..Len(Charset) : Charset[i] = c
          THEN CHOOSE i \in 1..Len(Charset) : Charset[i] = c
          ELSE 0

RECURSIVE Md5(_)
\* hashlib.md5(...).hexdigest(), abstracted to a 16-bit polynomial digest of
\* the characters: like md5 it reads nothing but the string
Md5(s) ==
    IF s = <<>> THEN 7
    ELSE (31 * Md5(SubSeq(s, 1, Len(s) - 1)) + Ord(s[Len(s)])) % 65536

ParsedPriceWithPrice(price) ==
    [id    |-> (Md5(price.host \o price.title) + price.price) % 65536,
     host  |-> price.host,
     title |-> price.title,
     price |-> price.price]

\* ParsedPrice(id=md5(f"{host}{title}".encode()).hexdigest(), ...)
ParsedPrice(price) ==
    [id    |-> Md5(price.host \o price.title),
     host  |-> price.host,
     title |-> price.title,
     price |-> price.price]

DetailPrefix == <<"CYR_Kh", "CYR_o", "CYR_s", "CYR_t", " ">>

DetailSuffix ==
    <<" ", "-", " ", "CYR_n", "CYR_e", " ", "CYR_p", "CYR_o", "CYR_d", "CYR_d",
      "CYR_e", "CYR_r", "CYR_zh", "CYR_i", "CYR_v", "CYR_a", "CYR_e", "CYR_t",
      "CYR_s", "CYR_ya", "!">>

DetailWithoutHost(h) == DetailPrefix \o DetailSuffix

\* read_prices_by_host: detail of the HTTPException
Detail(h) == DetailPrefix \o h \o DetailSuffix

\* except ValueError: catches ValueError and its subclasses;
\* requests.exceptions.InvalidURL derives from ValueError
IsValueError(e) == e.type \in {"ValueError", "InvalidURL"}

NoResponse == [status |-> 0, detail |-> <<>>, body |-> <<>>]

Example == <<"e", "x", "a", "m", "p", "l", "e", ".", "c", "o", "m">>

VekolomCapital == <<"V", "e", "k", "o", "l", "o", "m", ".", "r", "u">>

PlataWww == <<"w", "w", "w", ".", "p", "l", "a", "t", "a", "5", "7", ".", "r", "u">>

\* the values of the host query parameter
HostInputs == {VEKOLOM, PLATA57, URALVTORDRAG, Example, VekolomCapital, PlataWww}

Init ==
    /\ pc = "idle"
    /\ host = <<>>
    /\ parser = NoParser
    /\ categories = <<>>
    /\ idx = 1
    /\ prices = <<>>
    /\ fetched = <<>>
    /\ soups = <<>>
    /\ met = {}
    /\ catsCalls = 0
    /\ exc = NoExc
    /\ response = NoResponse
    /\ emitted = {}
    /\ reqs = 0
    /\ op = "none"
    /\ arg = <<>>
    /\ ret = <<>>

\* a request arrives: read_prices_by_host -> parse_prices_by_host ->
\* get_parser_for_host (for a host with categories through
\* parse_prices_from_categories_by_host)
ReadPricesByHost(h) ==
    /\ pc \in {"idle", "done"}
    /\ reqs < MaxRequests
    /\ LET r == GetParserForHost(h)
       IN  /\ host' = h
           /\ parser' = r.value
           /\ exc' = r.exc
           /\ pc' = IF r.exc.type # "none" THEN "raised" ELSE "get_soup"
    /\ categories' = <<>>
    /\ idx' = 1
    /\ prices' = <<>>
    /\ fetched' = <<>>
    /\ soups' = <<>>
    /\ met' = {}
    /\ catsCalls' = 0
    /\ response' = NoResponse
    /\ UNCHANGED <<emitted, reqs, unitVars>>

\* host_parser.get_soup(), then get_categories_urls (host with categories)
\* or parse_prices (any other host)
GetSoup ==
    /\ pc = "get_soup"
    /\ \E o \in GetSoupForUrl(parser, parser.url) :
          /\ fetched' = Append(fetched, parser.url)
          /\ met' = met \cup {o.cond}
          /\ soups' = IF o.exc.type # "none" THEN soups ELSE Append(soups, o.soup)
          /\ IF o.exc.type # "none"
             THEN /\ exc' = o.exc
                  /\ pc' = "raised"
                  /\ UNCHANGED <<categories, catsCalls, prices>>
             ELSE IF host \in HOSTS_WITH_CATEGORIES
             THEN /\ categories' = GetCategoriesUrls(parser, o.soup)
                  /\ catsCalls' = catsCalls + 1
                  /\ pc' = IF categories' = <<>> THEN "return" ELSE "category"
                  /\ UNCHANGED <<exc, prices>>
             ELSE LET r == ParsePrices(parser, o.soup)
                  IN  /\ exc' = r.exc
                      /\ prices' = r.value
                      /\ pc' = IF r.exc.type # "none" THEN "raised" ELSE "return"
                      /\ UNCHANGED <<categories, catsCalls>>
    /\ UNCHANGED <<host, parser, idx, response, emitted, reqs, unitVars>>

ExtendFront(old, new) == new \o old

\* prices.extend(new)
Extend(old, new) == old \o new

\* one iteration of "for category in categories"
Category ==
    /\ pc = "category"
    /\ \E o \in GetSoupForUrl(parser, categories[idx]) :
          /\ fetched' = Append(fetched, categories[idx])
          /\ met' = met \cup {o.cond}
          /\ IF o.exc.type # "none"
             THEN /\ exc' = o.exc
                  /\ pc' = "raised"
                  /\ UNCHANGED <<prices, soups, idx>>
             ELSE LET r == ParsePrices(parser, o.soup)
                  IN  /\ exc' = r.exc
                      /\ soups' = Append(soups, o.soup)
                      /\ IF r.exc.type # "none"
                         THEN /\ pc' = "raised"
                              /\ UNCHANGED <<prices, idx>>
                         ELSE /\ prices' = Extend(prices, r.value)
                              /\ idx' = idx + 1
                              /\ pc' = IF idx = Len(categories)
                                       THEN "return" ELSE "category"
    /\ UNCHANGED <<host, parser, categories, catsCalls, response, emitted,
                   reqs, unitVars>>

\* the list of ParsedPrice is built and the endpoint returns it
Return ==
    /\ pc = "return"
    /\ response' = [status |-> 200, detail |-> <<>>,
                    body |-> [i \in 1..Len(prices) |-> ParsedPrice(prices[i])]]
    /\ emitted' = emitted \cup
                  {<<response'.body[i].host, response'.body[i].title,
                     response'.body[i].id, reqs + 1>> : i \in 1..Len(prices)}
    /\ reqs' = reqs + 1
    /\ pc' = "done"
    /\ UNCHANGED <<host, parser, categories, idx, prices, fetched, soups, met,
                   catsCalls, exc, unitVars>>

\* an exception leaves parse_prices_by_host: the endpoint turns a ValueError
\* into HTTPException(400); anything else is the framework's 500
Raised ==
    /\ pc = "raised"
    /\ response' = IF IsValueError(exc)
                   THEN [status |-> 400, detail |-> Detail(host), body |-> <<>>]
                   ELSE [status |-> 500, detail |-> <<>>, body |-> <<>>]
    /\ reqs' = reqs + 1
    /\ pc' = "done"
    /\ UNCHANGED <<host, parser, categories, idx, prices, fetched, soups, met,
                   catsCalls, exc, emitted, unitVars>>

Next ==
    \/ \E h \in HostInputs : ReadPricesByHost(h)
    \/ GetSoup
    \/ Category
    \/ Return
    \/ Raised

Spec == Init /\ [][Next]_vars

----------------------------------------------------------------------------
(* Unit level: the normalizers applied to a price string *)

Tokens ==
    {<<"1">>, <<"2">>, <<"-">>, <<"/">>, <<" ">>, <<"\n">>, <<"CYR_o", "CYR_t">>}

\* the price strings: every concatenation of at most MaxTokens tokens
PriceStrings == {Flatten(ts) : ts \in SeqsUpTo(Tokens, MaxTokens)}

RequestIdle ==
    /\ pc = "idle"
    /\ host = <<>>
    /\ parser = NoParser
    /\ categories = <<>>
    /\ idx = 1
    /\ prices = <<>>
    /\ fetched = <<>>
    /\ soups = <<>>
    /\ met = {}
    /\ catsCalls = 0
    /\ exc = NoExc
    /\ response = NoResponse
    /\ emitted = {}
    /\ reqs = 0

InitNorm ==
    /\ RequestIdle
    /\ op = "input"
    /\ arg \in PriceStrings
    /\ ret = 0

Call(name, value) ==
    /\ op = "input"
    /\ op' = name
    /\ ret' = value
    /\ UNCHANGED <<arg, reqVars>>

CallVekolomMatchPrice == Call("ParserVekolom._match_price", VekolomMatchPrice(arg))

CallPlata57MatchPrice == Call("ParserPlata57._match_price", Plata57MatchPrice(arg))

CallUralvtordragMatchPrice ==
    Call("ParserUralvtordrag._match_price", UralvtordragMatchPrice(arg))

NextNorm ==
    \/ CallVekolomMatchPrice
    \/ CallPlata57MatchPrice
    \/ CallUralvtordragMatchPrice

SpecNorm == InitNorm /\ [][NextNorm]_vars

----------------------------------------------------------------------------
(* Unit level: the extractors applied to a document *)

\* what the title selector may find in a row: nothing, an element without
\* text, an element with text
TitleOptions == {<<>>, <<<<>>>>, <<TitleA>>, <<TitleB>>}

DigitsThenText == <<"1", "2", " ", "x">>

TextThenDigits == <<"x", "7">>

NoDigits == <<"x">>

PriceOptions == {<<>>, <<DigitsThenText>>, <<TextThenDigits>>, <<NoDigits>>}

Cell(text, bold) == [text |-> text, bold |-> bold]

ColsOptions ==
    {<<>>,
     <<Cell(<<"1", "5">>, TRUE)>>,
     <<Cell(<<"1", "5">>, FALSE)>>,
     <<Cell(NoDigits, TRUE)>>,
     <<Cell(<<"1", "5">>, FALSE), Cell(<<"CYR_o", "CYR_t", " ", "2", "0">>, TRUE)>>}

\* the item rows of the documents parse_prices is applied to
ParseRows(p) ==
    CASE p.kind = "ParserVekolom" ->
            {Row(t, pr, fl, <<>>) :
                t \in TitleOptions \ {<<TitleB>>},
                pr \in {<<>>, <<DigitsThenText>>},
                fl \in {<<>>, <<NoDigits>>}}
      [] p.kind = "ParserPlata57" ->
            {Row(t, <<>>, <<>>, c) : t \in TitleOptions, c \in ColsOptions}
      [] p.kind = "ParserUralvtordrag" ->
            {Row(t, pr, <<>>, <<>>) :
                t \in TitleOptions, pr \in PriceOptions \ {<<NoDigits>>}}

\* the rows ParserVekolom._parse_price is applied to
VekolomRows ==
    {Row(t, pr, fl, <<>>) :
        t \in {<<TitleA>>},
        pr \in PriceOptions,
        fl \in SeqsUpTo({<<"3">>, TextThenDigits, NoDigits}, MaxFlex)}

ParseInputs ==
    UNION {{[parser |-> p, soup |-> Doc(<<>>, TRUE, rows)] :
               rows \in SeqsUpTo(ParseRows(p), MaxRows)} : p \in Parsers}
    \cup {[parser |-> ParserVekolom, soup |-> Doc(<<>>, TRUE, <<r>>)] : r \in VekolomRows}
    \cup {[parser |-> ParserPlata57, soup |-> Doc(<<>>, FALSE, <<>>)]}

InitParse ==
    /\ RequestIdle
    /\ op = "input"
    /\ arg \in ParseInputs
    /\ ret = <<>>

CallParsePrices == Call("parse_prices", ParsePrices(arg.parser, arg.soup))

CallVekolomParsePrice ==
    /\ arg.parser = ParserVekolom
    /\ arg.soup.rows # <<>>
    /\ Call("ParserVekolom._parse_price", VekolomParsePrice(arg.soup.rows[1]))

NextParse ==
    \/ CallParsePrices
    \/ CallVekolomParsePrice

SpecParse == InitParse /\ [][NextParse]_vars

----------------------------------------------------------------------------
(* Properties *)

SupportedHosts == {VEKOLOM, PLATA57, URALVTORDRAG}

Answered == pc = "done"

\* C1: no record of an answered list has an empty title (a row without a
\* title element is left out).  Stated as the claim has it; plata57.ru and
\* uralvtordrag.ru keep such a row with title "".
C1_NoEmptyTitle ==
    (Answered /\ response.status = 200) =>
        \A i \in 1..Len(response.body) : response.body[i].title # <<>>

C3_400OnlyForUnsupportedHost ==
    (Answered /\ response.status = 400) => host \notin SupportedHosts

\* C4: a request one of whose fetches met a network error, a timeout, a
\* non-2xx status or an unparsable body ends in failure and answers no
\* records.  Stated as the claim has it; the status code is never looked at.
C4_FetchFailureFailsRequest ==
    (Answered /\ met \cap FailureConds # {}) =>
        /\ response.status = 500
        /\ response.body = <<>>

Href(link) == IF link = <<>> THEN NoneText ELSE link[1]

IsPrefix(a, b) == Len(a) <= Len(b) /\ a = SubSeq(b, 1, Len(a))

CategoryRows == Flatten([i \in 1..(Len(soups) - 1) |-> soups[i + 1].rows])

\* C5: a host with categories fetches the base URL, then every category
\* URL in the order of the links of the base page, one per step; the answer
\* is the rows of the category pages, page after page, each page in document
\* order, nothing merged.  Any other host fetches its base URL only and
\* get_categories_urls is never called.
C5_FanOutInOrder ==
    /\ catsCalls <= 1
    /\ host \notin HOSTS_WITH_CATEGORIES =>
          /\ catsCalls = 0
          /\ categories = <<>>
          /\ IsPrefix(fetched, <<parser.url>>)
    /\ host \in HOSTS_WITH_CATEGORIES =>
          /\ IsPrefix(fetched, <<parser.url>> \o categories)
          /\ catsCalls = 1 =>
                /\ Len(categories) = Len(soups[1].links)
                /\ \A i \in 1..Len(categories) :
                      categories[i] = parser.url \o Href(soups[1].links[i])
    /\ (Answered /\ response.status = 200) =>
          IF host \in HOSTS_WITH_CATEGORIES
          THEN /\ fetched = <<parser.url>> \o categories
               /\ Len(soups) = Len(categories) + 1
               /\ Len(response.body) = Len(CategoryRows)
               /\ \A k \in 1..Len(CategoryRows) :
                     /\ response.body[k].title =
                           (IF CategoryRows[k].titles = <<>> THEN <<>>
                            ELSE CategoryRows[k].titles[1])
                     /\ response.body[k].price =
                           (IF CategoryRows[k].price = <<>> THEN 0
                            ELSE UralvtordragMatchPrice(CategoryRows[k].price[1]))
          ELSE /\ fetched = <<parser.url>>
               /\ Len(soups) = 1

C5_Witness ==
    /\ Answered
    /\ response.status = 200
    /\ host = URALVTORDRAG
    /\ Len(categories) = 2
    /\ categories[1] # categories[2]
    /\ Len(soups[2].rows) = 3
    /\ Len(soups[3].rows) = 2
    /\ Len(response.body) = 5
    /\ response.body[3].price # response.body[5].price

AllDigits(s) == s # <<>> /\ \A i \in 1..Len(s) : s[i] \in Digits

\* the digits of the longest run of digits of s that starts at i
NumberAt(s, i) ==
    LET j == CHOOSE k \in i..Len(s) :
                /\ \A m \in i..k : s[m] \in Digits
                /\ k = Len(s) \/ s[k + 1] \notin Digits
    IN  SubSeq(s, i, j)

\* (a) as the claim has it: the whole string is digits
WholeStrict(s) == AllDigits(s)

\* (a) as the code has it: the string is digits, or digits and one final newline
WholeLoose(s) ==
    \/ AllDigits(s)
    \/ Len(s) >= 2 /\ s[Len(s)] = "\n" /\ AllDigits(SubSeq(s, 1, Len(s) - 1))

\* (b) the string starts with "от", one whitespace character, a number
StartsWithFrom(s) ==
    /\ Len(s) >= 4
    /\ SubSeq(s, 1, 2) = <<"CYR_o", "CYR_t">>
    /\ s[3] \in Whitespace
    /\ s[4] \in Digits

\* (c), (d): the positions of a separator with a digit on either side
Separators(s, sep) ==
    {k \in 2..(Len(s) - 1) :
        s[k] = sep /\ s[k - 1] \in Digits /\ s[k + 1] \in Digits}

FirstSeparator(s, sep) ==
    CHOOSE k \in Separators(s, sep) : \A m \in Separators(s, sep) : k <= m

\* the result the four rules give, tried in the order (a), (b), (c), (d),
\* with `whole` deciding rule (a)
FirstRule(s, whole) ==
    IF whole THEN Float(NumberAt(s, 1))
    ELSE IF StartsWithFrom(s) THEN Float(NumberAt(s, 4))
    ELSE IF Separators(s, "-") # {}
    THEN Float(NumberAt(s, FirstSeparator(s, "-") + 1))
    ELSE IF Separators(s, "/") # {}
    THEN Float(NumberAt(s, FirstSeparator(s, "/") + 1))
    ELSE 0

C7_HostIsNetlocOfBaseUrl ==
    /\ parser # NoParser =>
          /\ host \in SupportedHosts
          /\ Host(parser) = host
    /\ \A i \in 1..Len(prices) : prices[i].host = Host(parser)
    /\ \A i \in 1..Len(response.body) :
          /\ response.body[i].host = Host(parser)
          /\ response.body[i].host = host

C7_Witness ==
    /\ Answered
    /\ host = PLATA57
    /\ response.status = 200
    /\ Len(response.body) >= 2

HasTitle(row) == row.titles # <<>> /\ row.titles[1] # <<>>

HasDigit(s) == \E i \in 1..Len(s) : s[i] \in Digits

\* the price of the row cannot be determined: no price element, or a price
\* text outside the patterns of the site
Undetermined(p, row) ==
    CASE p.kind = "ParserVekolom" ->
            IF row.price # <<>> THEN ~HasDigit(row.price[1])
            ELSE row.flex = <<>> \/ ~HasDigit(row.flex[Len(row.flex)])
      [] p.kind = "ParserPlata57" ->
            LET bold == {i \in 1..Len(row.cols) : row.cols[i].bold}
            IN  \/ bold = {}
                \/ LET s == row.cols[CHOOSE i \in bold : \A j \in bold : i <= j].text
                   IN  /\ ~WholeLoose(s)
                       /\ ~StartsWithFrom(s)
                       /\ Separators(s, "-") = {}
                       /\ Separators(s, "/") = {}
      [] p.kind = "ParserUralvtordrag" ->
            \/ row.price = <<>>
            \/ row.price[1] = <<>>
            \/ row.price[1][1] \notin Digits

C9_IdIsFunctionOfHostAndTitle ==
    /\ \A r1, r2 \in emitted :
          (r1[1] = r2[1] /\ r1[2] = r2[2]) => r1[3] = r2[3]
    /\ \A i \in 1..Len(response.body) :
          <<response.body[i].host, response.body[i].title,
            response.body[i].id, reqs>> \in emitted

C9_Witness ==
    /\ Answered
    /\ reqs = 2
    /\ \E i, j \in 1..Len(response.body) :
          /\ i < j
          /\ response.body[i].title = response.body[j].title
          /\ response.body[i].price # response.body[j].price
          /\ \E r \in emitted :
                /\ r[4] = 1
                /\ r[1] = response.body[i].host
                /\ r[2] = response.body[i].title

\* the number the first run of digits of s stands for, 0 without digits
FirstRun(s) ==
    IF ~HasDigit(s) THEN 0
    ELSE LET i == CHOOSE k \in 1..Len(s) :
                     s[k] \in Digits /\ \A m \in 1..(k - 1) : s[m] \notin Digits
         IN  Float(NumberAt(s, i))

\* C10: vekolom.ru: the price is that of the primary price element when the
\* row has one (first run of digits, 0.0 without digits); without one it is
\* that of the last flexible-price element, and 0.0 when there is none.
C10_PrimaryThenLastFlex ==
    op = "ParserVekolom._parse_price" =>
        LET row == arg.soup.rows[1]
        IN  ret = IF row.price # <<>> THEN FirstRun(row.price[1])
                  ELSE IF row.flex # <<>> THEN FirstRun(row.flex[Len(row.flex)])
                  ELSE 0

C10_Witness ==
    /\ op = "ParserVekolom._parse_price"
    /\ arg.soup.rows[1].price = <<>>
    /\ Len(arg.soup.rows[1].flex) = 2
    /\ ret = FirstRun(arg.soup.rows[1].flex[2])
    /\ ret # FirstRun(arg.soup.rows[1].flex[1])

====
